---- MODULE Spec2Model ----
(***************************************************************************)
(* Model of src/crypto_report.py (class CryptoReport): the rate limiter    *)
(* _rate_limit_check, the retrying requester _make_api_request and the two *)
(* clients get_token_data and get_top_performers.                          *)
(*                                                                         *)
(* Time is counted in ticks of 1/TicksPerSec seconds.  The wall clock is   *)
(* taken to be non-decreasing; the model keeps the difference              *)
(* time.time() - self.last_request_time (elapsed) instead of the two       *)
(* absolute values, saturated at one minute, the longest interval a        *)
(* positive rate limit can ask for.                                        *)
(***************************************************************************)
EXTENDS Integers, Sequences, FiniteSets, TLC

VARIABLES
    rate_limit,      \* self.rate_limit
    json_error_base, \* the installed requests: is its JSONDecodeError a RequestException
    elapsed,         \* time.time() - self.last_request_time, in ticks, saturated
    pc,              \* position of the running code
    caller,          \* the client method that called _make_api_request
    top,             \* get_top_performers' argument top
    resp,            \* the local response of _make_api_request
    attempt,         \* the loop variable of _make_api_request
    delay,           \* the local delay of _make_api_request, in ticks
    jitter,          \* the last two values of random.uniform(0, 1), in ticks
    outcome,         \* how _make_api_request ended
    result,          \* what the client method handed to its caller
    calls,           \* number of client calls started on this instance
    trace,           \* events of the current _make_api_request call
    gap,             \* ticks between the last two updates of last_request_time
    asked,           \* ticks the last _rate_limit_check asked time.sleep for
    waits,           \* the gaps of the direct calls of _rate_limit_check so far
    report_data,     \* the entries of generate_report's report_data so far
    files,           \* the files generate_report has saved
    returned         \* how generate_report ended

vars == <<rate_limit, json_error_base, elapsed, pc, caller, top, resp, attempt,
          delay, jitter, outcome, result, calls, trace, gap, asked, waits,
          report_data, files, returned>>

----------------------------------------------------------------------------
(* Bounds of the model *)

TicksPerSec == 2
MaxOvershoot == 1
MaxLatency == 1
MaxIdle == 1
MaxCalls == 2

(* Constants of the program *)

max_retries == 5
base_delay == 1
jitter_max == 1
SecondsPerMinute == 60
DefaultRateLimit == 30

\* self.rate_limit = int(os.getenv('API_RATE_LIMIT', 30)): the values tried.
RateLimits == {0, 7, DefaultRateLimit, 60}

Saturate == SecondsPerMinute * TicksPerSec

Min(a, b) == IF a < b THEN a ELSE b
Max(a, b) == IF a > b THEN a ELSE b
Sat(t) == Min(t, Saturate)

RECURSIVE Pow2(_)
Pow2(n) == IF n = 0 THEN 1 ELSE 2 * Pow2(n - 1)

----------------------------------------------------------------------------
(* _rate_limit_check *)

\* As NeedsWait, with the comparison turned around.
NeedsWaitInverted(e, n) == e * n > SecondsPerMinute * TicksPerSec

\* current_time - self.last_request_time < 60/self.rate_limit, for e ticks
\* elapsed and a rate limit n > 0 (both sides multiplied by n).
NeedsWait(e, n) == e * n < SecondsPerMinute * TicksPerSec

\* As SleepTicks, sleeping for the time elapsed instead of the time left.
SleepElapsed(e, n) == e

\* As SleepTicks, with the time elapsed added instead of subtracted.
SleepIntervalAndElapsed(e, n) ==
    ((SecondsPerMinute * TicksPerSec + e * n) + (n - 1)) \div n

\* 60/self.rate_limit - (current_time - self.last_request_time) as the least
\* whole number of ticks that is no shorter (n > 0, NeedsWait(e, n)).
SleepTicks(e, n) ==
    ((SecondsPerMinute * TicksPerSec - e * n) + (n - 1)) \div n

----------------------------------------------------------------------------
(* Responses of the remote API *)

Names == [BTC |-> "Bitcoin", ETH |-> "Ethereum", XRP |-> "Ripple", SOL |-> "Solana"]

\* One element of the payload's data: a token with its USD quote.
Token(sym, rank, price, c7) ==
    [symbol |-> sym, name |-> Names[sym], cmc_rank |-> rank,
     quote |-> [USD |-> [price |-> price,
                         percent_change_7d |-> c7,
                         percent_change_30d |-> c7 + 10,
                         percent_change_90d |-> c7 + 20,
                         percent_change_1y |-> c7 + 30]]]

Without(d, k) == [f \in DOMAIN d \ {k} |-> d[f]]

TokenKeys == {"symbol", "name", "cmc_rank", "quote"}
QuoteKeys == {"price", "percent_change_7d", "percent_change_30d",
              "percent_change_90d", "percent_change_1y"}
RequiredKeys == (TokenKeys \cup {"USD"} \cup QuoteKeys) \ {"percent_change_1y"}

\* The token t as the provider sends it when it leaves the key k out.
Lacking(t, k) ==
    IF k \in TokenKeys THEN Without(t, k)
    ELSE IF k = "USD" THEN [t EXCEPT !.quote = Without(t.quote, "USD")]
    ELSE [t EXCEPT !.quote.USD = Without(t.quote.USD, k)]

\* A body: whether it parses as JSON, its "status" member (absent, null or a
\* dict), the "error_message" of that dict (absent, null or a string of
\* words), and its "data" member.
Body(parses, status, message, words, has_data, data) ==
    [parses |-> parses, status |-> status, message |-> message, msg |-> words,
     has_data |-> has_data, data |-> data]

NotJson == Body(FALSE, "absent", "absent", <<>>, FALSE, <<>>)
ErrorBody(words) == Body(TRUE, "dict", "str", words, FALSE, <<>>)
DataBody(tokens) == Body(TRUE, "dict", "null", <<>>, TRUE, tokens)

Http(status, body) == [kind |-> "http", status |-> status, body |-> body]
NetworkError == [kind |-> "network_error", status |-> 0, body |-> NotJson]
NoResponse == [kind |-> "none", status |-> 0, body |-> NotJson]

Indicator == <<"Invalid", "API", "key">>

\* Python's  needle in hay  on strings, on sequences of words.
Contains(needle, hay) ==
    \E i \in 0..(Len(hay) - Len(needle)) :
        \A j \in 1..Len(needle) : hay[i + j] = needle[j]


\* The responses a GET is answered with, and the tokens in them.
BTC == Token("BTC", 1, 500, 3)
ETH == Token("ETH", 2, 40, 0 - 2)

Responses ==
    { NetworkError,
      Http(200, DataBody(<<BTC, ETH>>)),
      Http(200, DataBody(<<BTC, Lacking(ETH, "price")>>)),
      Http(200, DataBody(<<Lacking(BTC, "percent_change_1y"), ETH>>)),
      Http(200, Body(TRUE, "dict", "null", <<>>, FALSE, <<>>)),
      Http(304, NotJson),
      Http(401, ErrorBody(<<"Invalid", "API", "key">>)),
      Http(401, ErrorBody(<<"Error:", "Invalid", "API", "key", "supplied">>)),
      Http(401, ErrorBody(<<"This", "API", "Key", "is", "invalid.">>)),
      Http(401, Body(TRUE, "absent", "absent", <<>>, FALSE, <<>>)),
      Http(401, Body(TRUE, "null", "absent", <<>>, FALSE, <<>>)),
      Http(401, NotJson),
      Http(429, ErrorBody(<<"Rate", "limit", "exceeded">>)),
      Http(500, NotJson) }

----------------------------------------------------------------------------
(* _make_api_request: one pass through the body of the try statement *)

Return == [act |-> "return", exc |-> "none"]
ReturnNone == [act |-> "return_none", exc |-> "none"]
Raise(exc) == [act |-> "raise", exc |-> exc]

\* As IsRequestException, for a clause  except Exception  that catches all.
IsAnyException(exc, jsonBase) == TRUE

\* The exceptions that  except requests.exceptions.RequestException  catches.
\* response.json() raises requests' JSONDecodeError, a RequestException in the
\* releases of requests that define it, a plain ValueError in those before.
IsRequestException(exc, jsonBase) ==
    \/ exc \in {"ConnectionError", "HTTPError"}
    \/ exc = "JSONDecodeError" /\ jsonBase

\* response.json().get('status', {}).get('error_message', 'Unauthorized')
\* and the test  "Invalid API key" in error_msg.
Check401(b) ==
    IF ~b.parses THEN Raise("JSONDecodeError")
    ELSE IF b.status = "absent" THEN ReturnNone
    ELSE IF b.status = "null" THEN Raise("AttributeError")
    ELSE IF b.message = "absent" THEN ReturnNone
    ELSE IF b.message = "null" THEN Raise("TypeError")
    ELSE IF Contains(Indicator, b.msg) THEN Raise("ValueError")
    ELSE ReturnNone

\* As RaisesForStatus, with the lower end of the range at 200.
RaisesFrom200(status) == 200 <= status /\ status < 600

\* response.raise_for_status() raises HTTPError for a status in 400..599.
RaisesForStatus(status) == 400 <= status /\ status < 600

\* Lines 38-49 for the answer r of requests.get.
Attempt(r) ==
    IF r.kind = "network_error" THEN Raise("ConnectionError")
    ELSE IF r.status = 401 THEN Check401(r.body)
    ELSE IF RaisesForStatus(r.status) THEN Raise("HTTPError")
    ELSE Return

\* As LastAttempt, two attempts late.
LastAttemptTwoLate(a) == a = max_retries + 1

\* As LastAttempt, one attempt late.
LastAttemptLate(a) == a = max_retries

\* if attempt == max_retries - 1: raise
LastAttempt(a) == a = max_retries - 1

\* As BackoffDelay, with 2 * attempt for 2 ** attempt.
BackoffLinear(a, j) == base_delay * (2 * a) * TicksPerSec + j

\* base_delay * (2 ** attempt) + random.uniform(0, 1), in ticks, for the
\* value j of random.uniform(0, 1) in ticks.
BackoffDelay(a, j) == base_delay * Pow2(a) * TicksPerSec + j

Jitters == 0..(jitter_max * TicksPerSec - 1)

Pending == [kind |-> "pending", exc |-> "none"]
Ended(kind, exc) == [kind |-> kind, exc |-> exc]

Event(ev, a) == [ev |-> ev, attempt |-> a]

----------------------------------------------------------------------------
(* get_token_data and get_top_performers: from the end of _make_api_request *)
(* to the value handed to the caller                                        *)

NoItems == <<>>
Result(kind, exc, items, best, worst) ==
    [kind |-> kind, exc |-> exc, items |-> items, best |-> best, worst |-> worst]
NoResult == Result("pending", "none", NoItems, NoItems, NoItems)
None == Result("none", "none", NoItems, NoItems, NoItems)
Escapes(exc) == Result("raise", exc, NoItems, NoItems, NoItems)

\* The keys the two list comprehensions read with [ ]: a missing one is a
\* KeyError.
HasRequired(t) ==
    /\ {"symbol", "name", "cmc_rank", "quote"} \subseteq DOMAIN t
    /\ "USD" \in DOMAIN t.quote
    /\ {"price", "percent_change_7d", "percent_change_30d",
        "percent_change_90d"} \subseteq DOMAIN t.quote.USD

\* token['quote']['USD'].get('percent_change_1y', None): <<>> stands for None.
Get1y(usd) ==
    IF "percent_change_1y" \in DOMAIN usd THEN <<usd.percent_change_1y>> ELSE <<>>

\* The dict get_token_data builds for one token (lines 70-79).
QuoteRecord(t) ==
    [symbol |-> t.symbol, name |-> t.name, rank |-> t.cmc_rank,
     price |-> t.quote.USD.price,
     change_7d |-> t.quote.USD.percent_change_7d,
     change_30d |-> t.quote.USD.percent_change_30d,
     change_90d |-> t.quote.USD.percent_change_90d,
     change_1y |-> Get1y(t.quote.USD)]

\* The dict get_top_performers builds for one token (lines 117-125, 128-136).
PerfRecord(t) ==
    [symbol |-> t.symbol, name |-> t.name, rank |-> t.cmc_rank,
     price |-> t.quote.USD.price,
     change_7d |-> t.quote.USD.percent_change_7d,
     change_30d |-> t.quote.USD.percent_change_30d,
     change_90d |-> t.quote.USD.percent_change_90d]

QuoteRecords(s) == [i \in 1..Len(s) |-> QuoteRecord(s[i])]
PerfRecords(s) == [i \in 1..Len(s) |-> PerfRecord(s[i])]

\* As GetTokenData, leaving out the tokens that lack a key instead of failing.
GetTokenDataPartial(out, r, jsonBase) ==
    IF out.kind # "response" \/ ~r.body.parses \/ ~r.body.has_data THEN None
    ELSE LET good == SelectSeq(r.body.data, HasRequired)
         IN Result("list", "none", QuoteRecords(good), NoItems, NoItems)

\* Lines 67-86: out is how _make_api_request ended, r its response.
GetTokenData(out, r, jsonBase) ==
    IF out.kind = "raise" THEN
        IF IsRequestException(out.exc, jsonBase) \/ out.exc = "KeyError"
        THEN None ELSE Escapes(out.exc)
    ELSE IF out.kind = "none" THEN Escapes("AttributeError")
    ELSE IF ~r.body.parses THEN
        IF IsRequestException("JSONDecodeError", jsonBase)
        THEN None ELSE Escapes("JSONDecodeError")
    ELSE IF ~r.body.has_data THEN None
    ELSE IF \E i \in 1..Len(r.body.data) : ~HasRequired(r.body.data[i]) THEN None
    ELSE Result("list", "none", QuoteRecords(r.body.data), NoItems, NoItems)

\* Python's s[lo:hi] for integers lo and hi.
PyIndex(i, n) == IF i < 0 THEN Max(i + n, 0) ELSE Min(i, n)
PySlice(s, lo, hi) == SubSeq(s, PyIndex(lo, Len(s)) + 1, PyIndex(hi, Len(s)))

\* The two sort keys: x['cmc_rank'] and x['quote']['USD']['percent_change_7d'].
KeyOf(t, key) ==
    IF key = "cmc_rank" THEN t.cmc_rank ELSE t.quote.USD.percent_change_7d

\* Python's sorted(s, key=..., reverse=reverse): stable in both directions.
\* The element at i goes behind those with a key that sorts first and behind
\* the earlier ones with an equal key.
Sorted(s, key, reverse) ==
    LET n == Len(s)
        Before(j, i) ==
            LET a == KeyOf(s[j], key)
                b == KeyOf(s[i], key)
            IN \/ IF reverse THEN a > b ELSE a < b
               \/ a = b /\ j < i
        place == SubSeq([i \in 1..n |-> 1 + Cardinality({j \in 1..n : Before(j, i)})],
                        1, n)
    IN SubSeq([p \in 1..n |-> s[CHOOSE i \in 1..n : place[i] = p]], 1, n)

Top100 == 100

\* As SortedByPerformance, sorting the whole listing.
SortedWholeListing(data) ==
    Sorted(Sorted(data, "cmc_rank", FALSE), "percent_change_7d", TRUE)

\* sorted_by_performance of lines 107-114, for a data whose keys are there.
SortedByPerformance(data) ==
    Sorted(Sorted(PySlice(data, 0, Top100), "cmc_rank", FALSE),
           "percent_change_7d", TRUE)

\* sorted_by_performance[:top]
BestSlice(s, k) == PySlice(s, 0, k)
\* sorted_by_performance[-top:]
WorstSlice(s, k) == PySlice(s, 0 - k, Len(s))

\* Lines 99-142: out is how _make_api_request ended, r its response.
GetTopPerformers(out, r, k) ==
    IF out.kind = "raise" THEN None
    ELSE IF out.kind = "none" THEN None
    ELSE IF ~r.body.parses \/ ~r.body.has_data THEN None
    ELSE LET data == r.body.data
             top_100 == PySlice(data, 0, Top100)
         IN IF \E i \in 1..Len(top_100) :
                   \/ "cmc_rank" \notin DOMAIN top_100[i]
                   \/ "quote" \notin DOMAIN top_100[i]
                   \/ "USD" \notin DOMAIN top_100[i].quote
                   \/ "percent_change_7d" \notin DOMAIN top_100[i].quote.USD
            THEN None
            ELSE LET sorted == SortedByPerformance(data)
                     best == BestSlice(sorted, k)
                     worst == WorstSlice(sorted, k)
                 IN IF \E i \in 1..Len(best) : ~HasRequired(best[i]) THEN None
                    ELSE IF \E i \in 1..Len(worst) : ~HasRequired(worst[i]) THEN None
                    ELSE Result("perf", "none", NoItems,
                                PerfRecords(best), PerfRecords(worst))

----------------------------------------------------------------------------
(* The instance after __init__, and the steps of the program *)

Callers == {"get_token_data", "get_top_performers"}

\* self.last_request_time = 0: the first check finds the epoch long past.
Init ==
    /\ rate_limit \in RateLimits
    /\ json_error_base \in BOOLEAN
    /\ elapsed = Saturate
    /\ pc = "idle"
    /\ caller = "none"
    /\ top = 0
    /\ resp = NoResponse
    /\ attempt = 0
    /\ delay = 0
    /\ jitter = <<>>
    /\ outcome = Pending
    /\ result = NoResult
    /\ calls = 0
    /\ trace = <<>>
    /\ gap = Saturate
    /\ asked = 0
    /\ waits = <<>>
    /\ report_data = <<>>
    /\ files = {}
    /\ returned = Pending

\* As Call, with the attempt counter kept from the call before.
CallKeepsAttempt(c, k) ==
    /\ pc = "idle"
    /\ calls < MaxCalls
    /\ \E idle \in 0..MaxIdle : elapsed' = Sat(elapsed + idle)
    /\ calls' = calls + 1
    /\ caller' = c
    /\ top' = k
    /\ pc' = "rate_limit"
    /\ resp' = NoResponse
    /\ delay' = 0
    /\ jitter' = <<>>
    /\ outcome' = Pending
    /\ result' = NoResult
    /\ trace' = <<>>
    /\ UNCHANGED <<rate_limit, json_error_base, attempt, gap, asked, waits, report_data, files, returned>>

\* A client method is called (get_top_performers with top = k) and enters the
\* loop of _make_api_request, some time after the previous call ended.
Call(c, k) ==
    /\ pc = "idle"
    /\ calls < MaxCalls
    /\ \E idle \in 0..MaxIdle : elapsed' = Sat(elapsed + idle)
    /\ calls' = calls + 1
    /\ caller' = c
    /\ top' = k
    /\ attempt' = 0
    /\ pc' = "rate_limit"
    /\ resp' = NoResponse
    /\ delay' = 0
    /\ jitter' = <<>>
    /\ outcome' = Pending
    /\ result' = NoResult
    /\ trace' = <<>>
    /\ UNCHANGED <<rate_limit, json_error_base, gap, asked, waits, report_data, files, returned>>

\* The body of _rate_limit_check for a rate limit that is not 0: time.sleep
\* returns over ticks later than asked.
Limiter(over) ==
    LET ask == IF NeedsWait(elapsed, rate_limit)
               THEN SleepTicks(elapsed, rate_limit) ELSE 0
    IN /\ asked' = ask
       /\ gap' = Sat(elapsed + ask + over)
       /\ elapsed' = 0

\* self._rate_limit_check() at line 37.  With a rate limit of 0 the division
\* raises ZeroDivisionError, which the except clause of line 51 lets through.
RateLimitCheck ==
    /\ pc = "rate_limit"
    /\ IF rate_limit = 0
       THEN /\ outcome' = Ended("raise", "ZeroDivisionError")
            /\ pc' = "client"
            /\ trace' = Append(trace, Event("wait_failed", attempt))
            /\ UNCHANGED <<elapsed, gap, asked>>
       ELSE /\ \E over \in 0..MaxOvershoot : Limiter(over)
            /\ pc' = "get"
            /\ trace' = Append(trace, Event("wait", attempt))
            /\ UNCHANGED outcome
    /\ UNCHANGED <<rate_limit, json_error_base, caller, top, resp, attempt, delay,
                   jitter, result, calls, waits,
                   report_data, files, returned>>

\* How one pass of the loop body ends for the answer r at attempt a: the
\* checks of lines 41-49 and the except clause of lines 51-54.  Pending is a
\* failure that is retried.
EndOf(r, a, jsonBase) ==
    LET x == Attempt(r) IN
    IF x.act = "return" THEN Ended("response", "none")
    ELSE IF x.act = "return_none" THEN Ended("none", "none")
    ELSE IF ~IsRequestException(x.exc, jsonBase) \/ LastAttempt(a)
         THEN Ended("raise", x.exc)
    ELSE Pending

\* The rest of the loop body for the answer r: requests.get, the checks of
\* lines 41-49 and the except clause of lines 51-56.
Handle(r) ==
    LET end == EndOf(r, attempt, json_error_base) IN
    IF end # Pending THEN
        /\ outcome' = end
        /\ pc' = "client"
        /\ UNCHANGED <<delay, jitter>>
    ELSE
        /\ \E j \in Jitters :
              /\ delay' = BackoffDelay(attempt, j)
              /\ jitter' = IF jitter = <<>> THEN <<j>> ELSE <<jitter[Len(jitter)], j>>
        /\ pc' = "backoff"
        /\ UNCHANGED outcome

HttpGet ==
    /\ pc = "get"
    /\ \E r \in Responses :
          /\ resp' = r
          /\ Handle(r)
    /\ \E latency \in 0..MaxLatency : elapsed' = Sat(elapsed + latency)
    /\ trace' = Append(trace, Event("get", attempt))
    /\ UNCHANGED <<rate_limit, json_error_base, caller, top, attempt, result, calls,
                   gap, asked, waits, report_data, files, returned>>

\* time.sleep(delay) at line 57 and the step of the for loop; the response of
\* the failed attempt is not read again.
BackoffSleep ==
    /\ pc = "backoff"
    /\ \E over \in 0..MaxOvershoot : elapsed' = Sat(elapsed + delay + over)
    /\ attempt' = attempt + 1
    /\ pc' = "rate_limit"
    /\ resp' = NoResponse
    /\ trace' = Append(trace, Event("sleep", attempt))
    /\ UNCHANGED <<rate_limit, json_error_base, caller, top, delay, jitter, outcome,
                   result, calls, gap, asked, waits,
                   report_data, files, returned>>

GetTokenDataReturn ==
    /\ pc = "client"
    /\ caller = "get_token_data"
    /\ result' = GetTokenData(outcome, resp, json_error_base)
    /\ pc' = "idle"
    /\ UNCHANGED <<rate_limit, json_error_base, elapsed, caller, top, resp, attempt,
                   delay, jitter, outcome, calls, trace, gap, asked, waits,
                   report_data, files, returned>>

GetTopPerformersReturn ==
    /\ pc = "client"
    /\ caller = "get_top_performers"
    /\ result' = GetTopPerformers(outcome, resp, top)
    /\ pc' = "idle"
    /\ UNCHANGED <<rate_limit, json_error_base, elapsed, caller, top, resp, attempt,
                   delay, jitter, outcome, calls, trace, gap, asked, waits,
                   report_data, files, returned>>

MaxTop == 2

CallTokenData == Call("get_token_data", 0)
CallTopPerformers == \E k \in 0..MaxTop : Call("get_top_performers", k)

Next ==
    \/ CallTokenData
    \/ CallTopPerformers
    \/ RateLimitCheck
    \/ HttpGet
    \/ BackoffSleep
    \/ GetTokenDataReturn
    \/ GetTopPerformersReturn

Spec == Init /\ [][Next]_vars

\* A request that has started runs on: time.sleep ends and requests.get is
\* answered or fails.  Nothing obliges a caller to call again.
Fairness ==
    /\ WF_vars(RateLimitCheck)
    /\ WF_vars(HttpGet)
    /\ WF_vars(BackoffSleep)

\* The steps of the first client call on an instance.
NextFirstCall == Next /\ (pc = "idle" => calls = 0)

SpecLive == Init /\ [][NextFirstCall]_vars /\ Fairness

----------------------------------------------------------------------------
(* _rate_limit_check called directly, several times in a row *)

MaxWaits == 4

WaitIfNeeded ==
    /\ pc = "idle"
    /\ calls = 0
    /\ Len(waits) < MaxWaits
    /\ IF rate_limit = 0
       THEN /\ outcome' = Ended("raise", "ZeroDivisionError")
            /\ UNCHANGED <<elapsed, gap, asked, waits>>
       ELSE /\ \E over \in 0..MaxOvershoot : Limiter(over)
            /\ waits' = Append(waits, gap')
            /\ UNCHANGED outcome
    /\ UNCHANGED <<rate_limit, json_error_base, pc, caller, top, resp, attempt,
                   delay, jitter, result, calls, trace,
                   report_data, files, returned>>

\* Time passing between two calls.
Pause ==
    /\ pc = "idle"
    /\ calls = 0
    /\ elapsed < MaxIdle
    /\ elapsed' = elapsed + 1
    /\ UNCHANGED <<rate_limit, json_error_base, pc, caller, top, resp, attempt,
                   delay, jitter, outcome, result, calls, trace, gap, asked, waits,
                   report_data, files, returned>>

NextLimiter == WaitIfNeeded \/ Pause

SpecLimiter == Init /\ [][NextLimiter]_vars

----------------------------------------------------------------------------
(* The client methods on the payloads of a successful request *)

MaxBatch == 2
MaxListing == 3

Symbols == <<"BTC", "ETH", "XRP", "SOL">>
Changes == {0 - 2, 0, 3}
WholeToken(i) == Token(Symbols[i], i, 100 * i, i)

\* The tokens of a quotes payload: whole, or lacking one key.
TokenShapes(i) ==
    {WholeToken(i)} \cup {Lacking(WholeToken(i), k) : k \in RequiredKeys \cup QuoteKeys}

QuoteBatches ==
    UNION {{b \in [1..n -> UNION {TokenShapes(i) : i \in 1..n}] :
               \A i \in 1..n : b[i] \in TokenShapes(i)} : n \in 1..MaxBatch}

\* The listings: n tokens with ranks 1..n in any order and any 7-day changes.
Listings ==
    UNION {{[i \in 1..n |-> Token(Symbols[i], rk[i], 100 * i, ch[i])] :
               rk \in {f \in [1..n -> 1..n] : \A i, j \in 1..n : f[i] = f[j] => i = j},
               ch \in [1..n -> Changes]} : n \in 0..MaxListing}

\* The state in which _make_api_request has returned the response r to the
\* client method c (top = k) after one attempt.
AfterRequest(c, k, r) ==
    /\ rate_limit = DefaultRateLimit
    /\ json_error_base = TRUE
    /\ elapsed = 0
    /\ pc = "client"
    /\ caller = c
    /\ top = k
    /\ resp = r
    /\ attempt = 0
    /\ delay = 0
    /\ jitter = <<>>
    /\ outcome = Ended("response", "none")
    /\ result = NoResult
    /\ calls = 1
    /\ trace = <<Event("wait", 0), Event("get", 0)>>
    /\ gap = Saturate
    /\ asked = 0
    /\ waits = <<>>
    /\ report_data = <<>>
    /\ files = {}
    /\ returned = Pending

InitQuotes ==
    \E b \in QuoteBatches : AfterRequest("get_token_data", 0, Http(200, DataBody(b)))

SpecQuotes == InitQuotes /\ [][GetTokenDataReturn]_vars

InitPerf ==
    \E l \in Listings, k \in 0..MaxListing :
        AfterRequest("get_top_performers", k, Http(200, DataBody(l)))

SpecPerf == InitPerf /\ [][GetTopPerformersReturn]_vars

\* Listings longer than 100 entries, as a limit above 100 asks for: the limit
\* is sent as a request parameter at line 93 and read nowhere else.
MaxExtra == 2
DefaultTop == 5

\* The token of rank i, its symbol and name being the rank written out.
RankedToken(i, c7) ==
    [Token("BTC", i, 100 * i, c7) EXCEPT !.symbol = ToString(i), !.name = ToString(i)]

Shifts == {0, 1, 2}
ExtraChanges == {0 - 50, 0, 50}

\* The 7-day change of the i-th of the first 100 tokens: between -5 and 5.
MildChange(i, shift) == ((7 * i + shift) % 11) - 5

\* The first 100 tokens in rank order with mild changes, then 1..MaxExtra
\* tokens whose changes may be beyond all of them.
LongListings ==
    UNION {{[i \in 1..(Top100 + n) |->
                IF i <= Top100 THEN RankedToken(i, MildChange(i, shift))
                               ELSE RankedToken(i, ch[i - Top100])] :
               shift \in Shifts, ch \in [1..n -> ExtraChanges]} : n \in 1..MaxExtra}

LongTops == {1, DefaultTop, Top100, Top100 + 1}

InitLongPerf ==
    \E l \in LongListings, k \in LongTops :
        AfterRequest("get_top_performers", k, Http(200, DataBody(l)))

SpecLongPerf == InitLongPerf /\ [][GetTopPerformersReturn]_vars

----------------------------------------------------------------------------
(* generate_report: five fetches, then three files.  Each fetch is one step: *)
(* the whole of _make_api_request and of the client method around it.        *)

Sections == <<"top_tokens", "meme_tokens", "solana_tokens", "base_tokens",
              "performance">>
FileNames == {"json", "csv", "performance_csv"}

\* The ways a call of _make_api_request can end, each with the response it
\* ended on: the answer r at some attempt a, the attempts before it having
\* failed with a retried exception.
Requests(n, jsonBase) ==
    IF n = 0
    THEN {<<Ended("raise", "ZeroDivisionError"), NoResponse, 0>>}
    ELSE {e \in {<<EndOf(r, a, jsonBase), r, a>> :
                     r \in Responses, a \in 0..(max_retries - 1)} :
             e[1] # Pending}

\* As CanConcatenate, with None read as an empty list.
ConcatenatesNone(rd) == TRUE

\* top_tokens + meme_tokens + solana_tokens + base_tokens of lines 204-205
\* is defined when none of the four is None.
CanConcatenate(rd) == \A i \in 1..4 : rd[i].kind = "list"

\* report_data['performance']['best'] of line 213 is defined when
\* performance is not None.
HasPerformance(rd) == rd[5].kind = "perf"

InitReport ==
    /\ rate_limit \in RateLimits
    /\ json_error_base \in BOOLEAN
    /\ elapsed = Saturate
    /\ pc = "fetch"
    /\ caller = "none"
    /\ top = 0
    /\ resp = NoResponse
    /\ attempt = 0
    /\ delay = 0
    /\ jitter = <<>>
    /\ outcome = Pending
    /\ result = NoResult
    /\ calls = 0
    /\ trace = <<>>
    /\ gap = Saturate
    /\ asked = 0
    /\ waits = <<>>
    /\ report_data = <<>>
    /\ files = {}
    /\ returned = Pending

\* One value of the dict of lines 188-196.  An exception that the client
\* method lets through ends generate_report, which catches nothing.
FetchSection ==
    /\ pc = "fetch"
    /\ \E e \in Requests(rate_limit, json_error_base) :
          LET n == Len(report_data) + 1
              res == IF n < 5
                     THEN GetTokenData(e[1], e[2], json_error_base)
                     ELSE GetTopPerformers(e[1], e[2], DefaultTop)
          IN /\ caller' = IF n < 5 THEN "get_token_data" ELSE "get_top_performers"
             /\ top' = IF n < 5 THEN 0 ELSE DefaultTop
             /\ outcome' = e[1]
             /\ resp' = e[2]
             /\ attempt' = e[3]
             /\ result' = res
             /\ IF res.kind = "raise"
                THEN /\ returned' = Ended("raise", res.exc)
                     /\ pc' = "finished"
                     /\ UNCHANGED report_data
                ELSE /\ report_data' = Append(report_data, res)
                     /\ pc' = IF n < 5 THEN "fetch" ELSE "save_json"
                     /\ UNCHANGED returned
    /\ UNCHANGED <<rate_limit, json_error_base, elapsed, delay, jitter, calls,
                   trace, gap, asked, waits, files>>

\* save_report of lines 198-200: it returns False on any exception of open
\* or json.dump, and generate_report then returns None.
SaveJson ==
    /\ pc = "save_json"
    /\ \E ok \in BOOLEAN :
          IF ok
          THEN /\ files' = files \cup {"json"}
               /\ pc' = "save_csv"
               /\ UNCHANGED returned
          ELSE /\ returned' = Ended("none", "none")
               /\ pc' = "finished"
               /\ UNCHANGED files
    /\ UNCHANGED <<rate_limit, json_error_base, elapsed, caller, top, resp, attempt,
                   delay, jitter, outcome, result, calls, trace, gap, asked, waits,
                   report_data>>

\* Lines 203-207: the four lists are added up, a TypeError when one of them
\* is None, and written by save_csv.
SaveCsv ==
    /\ pc = "save_csv"
    /\ IF ~CanConcatenate(report_data)
       THEN /\ returned' = Ended("raise", "TypeError")
            /\ pc' = "finished"
            /\ UNCHANGED files
       ELSE \E ok \in BOOLEAN :
               IF ok
               THEN /\ files' = files \cup {"csv"}
                    /\ pc' = "save_performance_csv"
                    /\ UNCHANGED returned
               ELSE /\ returned' = Ended("none", "none")
                    /\ pc' = "finished"
                    /\ UNCHANGED files
    /\ UNCHANGED <<rate_limit, json_error_base, elapsed, caller, top, resp, attempt,
                   delay, jitter, outcome, result, calls, trace, gap, asked, waits,
                   report_data>>

\* Lines 209-227: the best and worst tokens are read, a TypeError when
\* performance is None, and written by save_csv; then the three file names
\* are returned.
SavePerformanceCsv ==
    /\ pc = "save_performance_csv"
    /\ IF ~HasPerformance(report_data)
       THEN /\ returned' = Ended("raise", "TypeError")
            /\ UNCHANGED files
       ELSE \E ok \in BOOLEAN :
               IF ok
               THEN /\ files' = files \cup {"performance_csv"}
                    /\ returned' = Ended("files", "none")
               ELSE /\ returned' = Ended("none", "none")
                    /\ UNCHANGED files
    /\ pc' = "finished"
    /\ UNCHANGED <<rate_limit, json_error_base, elapsed, caller, top, resp, attempt,
                   delay, jitter, outcome, result, calls, trace, gap, asked, waits,
                   report_data>>

NextReport == FetchSection \/ SaveJson \/ SaveCsv \/ SavePerformanceCsv

SpecReport == InitReport /\ [][NextReport]_vars

----------------------------------------------------------------------------
(* Properties *)

Interval == SecondsPerMinute * TicksPerSec

RECURSIVE SumFrom(_, _)
SumFrom(s, i) == IF i > Len(s) THEN 0 ELSE s[i] + SumFrom(s, i + 1)

Count(ev) == Cardinality({i \in 1..Len(trace) : trace[i].ev = ev})
LastEvent == trace[Len(trace)]
RequestOver == pc \in {"client", "idle"} /\ calls > 0

\* C1: with a positive rate limit N, every call of _rate_limit_check after
\* the first on an instance returns at least 60/N seconds after the previous
\* one returned, so k calls made in a row take at least (k-1)*60/N seconds.
C1_MinimumSpacing ==
    rate_limit > 0 =>
        /\ \A i \in 2..Len(waits) : waits[i] * rate_limit >= Interval
        /\ Len(waits) >= 2 =>
               SumFrom(waits, 2) * rate_limit >= (Len(waits) - 1) * Interval

\* Three calls in a row at 30 requests a minute, the last two having slept.
C1_Witness ==
    /\ rate_limit = DefaultRateLimit
    /\ Len(waits) = 3
    /\ asked > 0
    /\ SumFrom(waits, 2) * rate_limit >= 2 * Interval

IsAuthFailure(r) ==
    /\ r.kind = "http"
    /\ r.status = 401
    /\ r.body.parses
    /\ r.body.status = "dict"
    /\ r.body.message = "str"
    /\ Contains(Indicator, r.body.msg)

\* C2: a 401 response with the "Invalid API key" indicator ends the request
\* with the auth failure at whichever attempt it arrives: the GET that
\* received it is the last event of the request, with no sleep, wait or GET
\* after it.
C2_AuthFailureEndsRequest ==
    IsAuthFailure(resp) =>
        /\ pc \in {"client", "idle"}
        /\ outcome = Ended("raise", "ValueError")
        /\ LastEvent = Event("get", attempt)
        /\ Count("get") = attempt + 1
        /\ Count("sleep") = attempt

\* The indicator arrives at the fourth attempt.
C2_Witness ==
    /\ IsAuthFailure(resp)
    /\ attempt = 3
    /\ outcome.kind = "raise"

IsTransient(r) ==
    \/ r.kind = "network_error"
    \/ r.kind = "http" /\ r.status >= 400 /\ r.status < 600 /\ r.status # 401

\* C3: when every attempt of a request fails transiently, the request ends
\* with the last RequestException after exactly max_retries GETs, and nothing
\* (no sleep, no GET) follows the last failed attempt.
C3_ExhaustedAfterMaxAttempts ==
    /\ pc = "backoff" => attempt < max_retries - 1
    /\ (RequestOver /\ IsTransient(resp)) =>
           /\ outcome.kind = "raise"
           /\ outcome.exc \in {"ConnectionError", "HTTPError"}
           /\ attempt = max_retries - 1
           /\ Count("get") = max_retries
           /\ Count("sleep") = max_retries - 1
           /\ LastEvent = Event("get", max_retries - 1)

C3_Witness ==
    /\ RequestOver
    /\ IsTransient(resp)
    /\ Count("get") = max_retries
    /\ outcome.kind = "raise"

\* C4: after a transient failure at attempt a with attempts left the request
\* sleeps for d with base_delay*2^a <= d < base_delay*2^a + jitter_max before
\* the next attempt starts, the jitter being one of the values drawn for this
\* attempt.
C4_BackoffDelayBounds ==
    /\ pc = "backoff" =>
           /\ delay >= base_delay * Pow2(attempt) * TicksPerSec
           /\ delay < (base_delay * Pow2(attempt) + jitter_max) * TicksPerSec
           /\ LastEvent = Event("get", attempt)
    /\ (pc = "rate_limit" /\ attempt > 0) =>
           /\ LastEvent = Event("sleep", attempt - 1)
           /\ elapsed >= delay
           /\ delay >= base_delay * Pow2(attempt - 1) * TicksPerSec
           /\ delay < (base_delay * Pow2(attempt - 1) + jitter_max) * TicksPerSec
    /\ \A i \in 1..Len(trace) :
           (trace[i].ev = "wait" /\ trace[i].attempt > 0) =>
               trace[i - 1] = Event("sleep", trace[i].attempt - 1)

\* The third sleep of a request is over, with a jitter other than the one
\* drawn for the sleep before.
C4_Witness ==
    /\ pc = "rate_limit"
    /\ attempt = 3
    /\ Len(jitter) = 2
    /\ jitter[1] # jitter[2]
    /\ delay = base_delay * Pow2(2) * TicksPerSec + jitter[2]

Is2xx(r) == r.kind = "http" /\ r.status >= 200 /\ r.status < 300

\* C5: the request returns the response of its first 2xx attempt: that GET is
\* the last event of the request, and the result carries no exception of the
\* failed attempts before it.
C5_ReturnsFirstSuccess ==
    Is2xx(resp) =>
        /\ pc \in {"client", "idle"}
        /\ outcome = Ended("response", "none")
        /\ LastEvent = Event("get", attempt)
        /\ Count("get") = attempt + 1
        /\ Count("sleep") = attempt

\* A success at the third attempt, after two transient failures.
C5_Witness ==
    /\ Is2xx(resp)
    /\ attempt = 2
    /\ outcome.kind = "response"
    /\ Count("sleep") = 2

Is401(r) == r.kind = "http" /\ r.status = 401

\* C6: every 401 response without the "Invalid API key" indicator makes the
\* request return at once with a failure that is no exception: it is not
\* retried, no sleep follows, and neither the request nor the client method
\* raises.
C6_Plain401ReturnsFailure ==
    (Is401(resp) /\ ~Contains(Indicator, resp.body.msg)) =>
        /\ pc \in {"client", "idle"}
        /\ outcome = Ended("none", "none")
        /\ LastEvent = Event("get", attempt)
        /\ result.kind # "raise"

\* C7: every network failure and every response whose status is neither 2xx
\* nor 401 is a transient failure: retried while attempts remain, the
\* exhausted error at the last attempt, and never returned as a success.
C7_NonSuccessIsTransient ==
    (resp.kind = "network_error" \/ (resp.kind = "http" /\ ~Is2xx(resp) /\ ~Is401(resp))) =>
        /\ outcome.kind # "response"
        /\ attempt < max_retries - 1 => pc = "backoff"
        /\ attempt = max_retries - 1 => outcome.kind = "raise"

Change(t) == t.quote.USD.percent_change_7d
Descending(s) == \A i, j \in 1..Len(s) : i < j => s[i].change_7d >= s[j].change_7d
SymbolsOf(s) == {s[i].symbol : i \in 1..Len(s)}

\* C8: for a listing of n tokens and 0 <= top <= n, get_top_performers
\* returns exactly top "best" tokens, the top ones by 7-day change in
\* descending order, and exactly top "worst" tokens, the bottom ones by
\* 7-day change, in descending order too.
C8_BestAndWorstHaveTopTokens ==
    LET data == resp.body.data IN
    (pc = "idle" /\ caller = "get_top_performers" /\ top <= Len(data)) =>
        /\ result.kind = "perf"
        /\ Len(result.best) = top
        /\ Len(result.worst) = top
        /\ Descending(result.best)
        /\ Descending(result.worst)
        /\ \A i \in 1..Len(data) : \A j \in 1..Len(result.best) :
               data[i].symbol \notin SymbolsOf(result.best) =>
                   Change(data[i]) <= result.best[j].change_7d
        /\ \A i \in 1..Len(data) : \A j \in 1..Len(result.worst) :
               data[i].symbol \notin SymbolsOf(result.worst) =>
                   Change(data[i]) >= result.worst[j].change_7d

\* The key k is missing from the token t as the provider sent it.
Misses(t, k) ==
    IF k \in TokenKeys THEN k \notin DOMAIN t
    ELSE IF "quote" \notin DOMAIN t THEN TRUE
    ELSE IF k = "USD" THEN "USD" \notin DOMAIN t.quote
    ELSE IF "USD" \notin DOMAIN t.quote THEN TRUE
    ELSE k \notin DOMAIN t.quote.USD

\* C9: get_token_data is all or nothing: with a token of the batch lacking a
\* required field it fails for the whole batch (None, no list); otherwise it
\* returns one record per token, in order, a missing 1-year change being the
\* explicit absent value.
C9_QuotesAllOrNothing ==
    LET data == resp.body.data IN
    (pc = "idle" /\ caller = "get_token_data" /\ outcome.kind = "response"
        /\ resp.body.parses /\ resp.body.has_data) =>
        IF \E i \in 1..Len(data) : \E k \in RequiredKeys : Misses(data[i], k)
        THEN result = None
        ELSE /\ result.kind = "list"
             /\ Len(result.items) = Len(data)
             /\ \A i \in 1..Len(data) :
                    /\ result.items[i].symbol = data[i].symbol
                    /\ result.items[i].price = data[i].quote.USD.price
                    /\ result.items[i].change_1y =
                           IF Misses(data[i], "percent_change_1y") THEN <<>>
                           ELSE <<data[i].quote.USD.percent_change_1y>>

\* A batch whose first token is whole and whose second lacks the price.
C9_Witness ==
    /\ pc = "idle"
    /\ caller = "get_token_data"
    /\ Len(resp.body.data) = 2
    /\ \A k \in RequiredKeys \cup QuoteKeys : ~Misses(resp.body.data[1], k)
    /\ Misses(resp.body.data[2], "price")
    /\ result = None

\* C10: every terminal failure reaches the caller of the client methods as a
\* failure that tells its kind: an auth failure is not the result an
\* exhausted or a mapping failure gives (None), and a 401 without the
\* indicator does not leave the client method as an exception.
C10_FailuresKeepTheirKind ==
    (pc = "idle" /\ calls > 0) =>
        /\ outcome = Ended("raise", "ValueError") => result # None
        /\ outcome = Ended("none", "none") => result.kind # "raise"

\* C11: over any run of requests on one instance, every GET (first attempts
\* and retries alike) comes right after a _rate_limit_check of the same
\* attempt, and is issued at least 60/rate_limit seconds after the GET before.
C11_EveryGetIsRateLimited ==
    /\ \A i \in 1..Len(trace) :
           trace[i].ev = "get" =>
               i > 1 /\ trace[i - 1] = Event("wait", trace[i].attempt)
    /\ pc = "get" =>
           /\ LastEvent = Event("wait", attempt)
           /\ elapsed = 0
           /\ gap * rate_limit >= Interval

\* The first GET of a second request, for which the limiter had to sleep.
C11_Witness ==
    /\ pc = "get"
    /\ calls = 2
    /\ attempt = 0
    /\ asked > 0
    /\ gap * rate_limit >= Interval

InRequest == pc \in {"rate_limit", "get", "backoff"}

\* C12: with a positive rate limit every _rate_limit_check returns and
\* every request ends, having made at most max_retries GETs and at most
\* max_retries - 1 backoff sleeps.
C12_RequestsTerminate ==
    (rate_limit > 0 /\ InRequest) ~>
        (pc = "client" /\ Count("get") <= max_retries
                       /\ Count("sleep") <= max_retries - 1)

\* A request that ended after all its GETs and sleeps.
C12_Witness ==
    /\ rate_limit > 0
    /\ pc = "client"
    /\ Count("get") = max_retries
    /\ Count("sleep") = max_retries - 1

\* A client call starts: the step from the caller into _make_api_request.
CallStarts == pc = "idle" /\ pc' = "rate_limit"

\* C13: every request starts afresh whatever the call before it came to: at
\* attempt 0, with nothing of the earlier request but the time of the last
\* permitted request; it then counts its own sleeps only, its first sleep is
\* the base delay, and it gives up only after max_retries GETs of its own.
C13_RequestsAreIndependent ==
    /\ [][CallStarts =>
            /\ attempt' = 0
            /\ delay' = 0
            /\ jitter' = <<>>
            /\ resp' = NoResponse
            /\ outcome' = Pending
            /\ trace' = <<>>
            /\ rate_limit' = rate_limit
            /\ elapsed' >= elapsed]_vars
    /\ [](InRequest =>
            /\ attempt = Count("sleep")
            /\ attempt <= max_retries - 1)
    /\ []((pc = "backoff" /\ Count("sleep") = 0) =>
            /\ delay >= base_delay * TicksPerSec
            /\ delay < (base_delay + jitter_max) * TicksPerSec)
    /\ []((RequestOver /\ outcome.kind = "raise"
                /\ outcome.exc \in {"ConnectionError", "HTTPError"}) =>
            Count("get") = max_retries)

\* A second request that used all its attempts.
C13_Witness ==
    /\ calls = 2
    /\ pc = "client"
    /\ attempt = max_retries - 1
    /\ Count("get") = max_retries
    /\ outcome.kind = "raise"

Fetched(i) == i <= Len(report_data) /\ report_data[i].kind \in {"list", "perf"}

\* C14: generate_report returns the file names only when each of the five
\* fetches gave data and each of the three files was saved; a run in which a
\* fetch gave None or raised, or a save failed, never ends with the names.
C14_ReportNeedsEverything ==
    /\ returned.kind = "files" =>
           /\ \A i \in 1..Len(Sections) : Fetched(i)
           /\ files = FileNames
           /\ pc = "finished"
    /\ (pc = "finished" /\ \E i \in 1..Len(Sections) : ~Fetched(i)) =>
           returned.kind \in {"none", "raise"}

\* A run that saved the report and then failed on a section that was None.
C14_Witness ==
    /\ pc = "finished"
    /\ Len(report_data) = Len(Sections)
    /\ \E i \in 1..4 : report_data[i] = None
    /\ files = {"json"}
    /\ returned = Ended("raise", "TypeError")

LimiterReturns == pc = "rate_limit" /\ pc' = "get"

\* C15: a call of _rate_limit_check asks time.sleep for no more than the
\* interval 60/rate_limit (to the tick), asks for no sleep when the interval
\* has already passed since last_request_time, as on the first call of an
\* instance, and moves last_request_time forward by at least the time that
\* had passed.
C15_LimiterSleepsAtMostTheRest ==
    /\ [][LimiterReturns =>
              /\ asked' >= 0
              /\ asked' > 0 => (asked' - 1) * rate_limit < Interval
              /\ asked' > 0 => (elapsed + asked' - 1) * rate_limit < Interval
              /\ elapsed * rate_limit >= Interval => asked' = 0
              /\ gap' >= Min(elapsed + asked', Saturate)]_vars
    /\ []((pc = "get" /\ calls = 1 /\ attempt = 0) => asked = 0)

\* The second retry at 30 requests a minute, whose backoff sleep outlasted
\* the interval of two seconds: the limiter did not sleep.
C15_Witness ==
    /\ pc = "get"
    /\ rate_limit = DefaultRateLimit
    /\ attempt = 2
    /\ delay * rate_limit >= Interval
    /\ asked = 0
    /\ gap >= delay

Beyond100(data) == {data[i].symbol : i \in (Top100 + 1)..Len(data)}

\* C16: for a listing of more than 100 tokens, whatever top is, the "best"
\* and the "worst" tokens of get_top_performers are among the first 100
\* entries of the listing: no token beyond position 100 is in either.
C16_OnlyFirstHundredRanked ==
    LET data == resp.body.data IN
    (pc = "idle" /\ caller = "get_top_performers" /\ Len(data) > Top100) =>
        /\ result.kind = "perf"
        /\ SymbolsOf(result.best) \cup SymbolsOf(result.worst)
               \subseteq SymbolsOf(SubSeq(data, 1, Top100))
        /\ (SymbolsOf(result.best) \cup SymbolsOf(result.worst))
               \cap Beyond100(data) = {}
        /\ Len(result.best) = Min(top, Top100)
        /\ Len(result.worst) = Min(top, Top100)

\* The whole of a listing of 102 tokens was asked for, the last two with
\* the largest and the least 7-day change of all.
C16_Witness ==
    LET data == resp.body.data IN
    /\ pc = "idle"
    /\ caller = "get_top_performers"
    /\ Len(data) = Top100 + 2
    /\ top = Top100 + 1
    /\ \A i \in 1..Top100 : /\ Change(data[Top100 + 1]) > Change(data[i])
                             /\ Change(data[Top100 + 2]) < Change(data[i])
    /\ Len(result.best) = Top100

====
